---- MODULE Spec2Model ----
(***************************************************************************)
(* Model of BinanceWebsocket (src/src/client/websocket.rs): the two        *)
(* registry maps, the StreamUnordered set of open connections, and the     *)
(* three operations subscribe, unsubscribe and poll_next.                  *)
(*                                                                         *)
(* StreamUnordered is an external crate that keeps its members in a slab:  *)
(* insert returns the most recently freed token, or the next unused index  *)
(* when none is free (index 0 is held by the queue's stub, so tokens start *)
(* at 1); take(token) unlinks the member, frees its token and returns its  *)
(* stream; poll_next yields (Item, token) for a member with a frame ready, *)
(* (Finished, token) once for a member whose stream ended, None when it    *)
(* has no member, and Pending otherwise.  A finished member stays in the   *)
(* set, holding its token, until it is taken.                              *)
(***************************************************************************)
EXTENDS Integers, Sequences, FiniteSets, TLC

\* ---------------------------------------------------------------- bounds
MaxConns == 2      \* successful handshakes in one behaviour
MaxFrames == 3     \* frames the peers send in one behaviour

\* ------------------------------------------------------------ data model
\* Subscription values (the keys of the registry); a small sample of the enum.
Subscription == { [kind |-> "Trade", symbol |-> "btcusdt"],
                  [kind |-> "Depth", symbol |-> "btcusdt"] }

NoSub == [kind |-> "none", symbol |-> ""]

\* Tokens StreamUnordered can hand out: slot 0 is never a member's token.
Tokens == 1..MaxConns

Conns == 1..MaxConns

\* The frames the peers send in this model.  A Text frame carries the names
\* of the schemas its JSON deserializes as: it decodes under a descriptor
\* whose schema is among them and is malformed under any other.
Message == { [type |-> "Text", schemas |-> {"Trade"}],
             [type |-> "Text", schemas |-> {"Depth"}],
             [type |-> "Close", schemas |-> {}] }

VARIABLES
    subscriptions,  \* HashMap<Subscription, usize>
    tokens,         \* HashMap<usize, Subscription>
    streams,        \* StreamUnordered: token -> [conn, done]
    free,           \* StreamUnordered's freed tokens, most recent first
    conns,          \* every connection opened: [sub, inbox, closed, taken, out]
    fed,            \* number of frames the peers have sent so far
    last            \* the call that made the last step, and what it returned

vars == <<subscriptions, tokens, streams, free, conns, fed, last>>

\* --------------------------------------------------------------- HashMap
MapInsert(m, k, v) == [x \in DOMAIN m \cup {k} |-> IF x = k THEN v ELSE m[x]]

MapRemove(m, k) == [x \in DOMAIN m \ {k} |-> m[x]]

EmptyMap == [x \in {} |-> 0]

\* ------------------------------------------------------- StreamUnordered
\* An insert that hands out the first key whenever no key was freed.
NextTokenFixed == IF free # <<>> THEN Head(free) ELSE 1

\* The token insert returns: the slab's next vacant key.
NextToken == IF free # <<>> THEN Head(free) ELSE Cardinality(DOMAIN streams) + 1

StreamsInsert(c) == MapInsert(streams, NextToken, [conn |-> c, done |-> FALSE])

FreeAfterInsert == IF free # <<>> THEN Tail(free) ELSE free

\* take(token): the member's connection, 0 for None.
StreamsTake(token) == IF token \in DOMAIN streams THEN streams[token].conn ELSE 0

StreamsAfterTake(token) == MapRemove(streams, token)

FreeAfterTake(token) == IF token \in DOMAIN streams THEN <<token>> \o free ELSE free

IsMember(c) == \E t \in DOMAIN streams : streams[t].conn = c

\* A connection's stream yields its frames in the order the peer sent them.
\* (Newest-first delivery, the reverse of the order sent.)
NextFrameNewest(c) == conns[c].inbox[Len(conns[c].inbox)]

NextFrame(c) == Head(conns[c].inbox)

\* The frames left once frame f has been read.
RestFrames(c, f) ==
    LET q == conns[c].inbox
        I == {i \in 1..Len(q) : q[i] # f}
    IN [j \in 1..Cardinality(I) |->
           q[CHOOSE i \in I : Cardinality({k \in I : k < i}) = j - 1]]

\* A member is ready to yield an item / its end of stream.
HasItem(t) == /\ t \in DOMAIN streams
              /\ ~streams[t].done
              /\ conns[streams[t].conn].inbox # <<>>

HasEnded(t) == /\ t \in DOMAIN streams
               /\ ~streams[t].done
               /\ conns[streams[t].conn].inbox = <<>>
               /\ conns[streams[t].conn].closed

\* ---------------------------------------------------------- parse_message
\* from_str(&msg) into the payload type named schema: Ok iff the text
\* deserializes as it.
from_str(schema, msg) == schema \in msg.schemas

\* A decoder that passes a Close frame through like a Ping.
parse_message_close_ok(sub, msg) ==
    CASE msg.type = "Text" ->
             IF sub.kind = "UserData"
             THEN IF from_str("AccountUpdate", msg)
                  THEN [ok |-> TRUE, variant |-> "UserAccountUpdate"]
                  ELSE IF from_str("UserOrderUpdate", msg)
                       THEN [ok |-> TRUE, variant |-> "UserOrderUpdate"]
                       ELSE [ok |-> FALSE, variant |-> "json error"]
             ELSE IF from_str(sub.kind, msg)
                  THEN [ok |-> TRUE, variant |-> sub.kind]
                  ELSE [ok |-> FALSE, variant |-> "json error"]
      [] msg.type = "Binary" ->
             [ok |-> TRUE, variant |-> "Binary", data |-> msg.data]
      [] msg.type = "Pong"   -> [ok |-> TRUE, variant |-> "Pong"]
      [] msg.type = "Ping"   -> [ok |-> TRUE, variant |-> "Ping"]
      [] msg.type = "Close"  -> [ok |-> TRUE, variant |-> "Close"]
      [] msg.type = "Frame"  -> [ok |-> FALSE, variant |-> "Unexpected frame"]

\* A decoder that rejects a Pong frame as unexpected.
parse_message_pong_err(sub, msg) ==
    CASE msg.type = "Text" ->
             IF sub.kind = "UserData"
             THEN IF from_str("AccountUpdate", msg)
                  THEN [ok |-> TRUE, variant |-> "UserAccountUpdate"]
                  ELSE IF from_str("UserOrderUpdate", msg)
                       THEN [ok |-> TRUE, variant |-> "UserOrderUpdate"]
                       ELSE [ok |-> FALSE, variant |-> "json error"]
             ELSE IF from_str(sub.kind, msg)
                  THEN [ok |-> TRUE, variant |-> sub.kind]
                  ELSE [ok |-> FALSE, variant |-> "json error"]
      [] msg.type = "Binary" ->
             [ok |-> TRUE, variant |-> "Binary", data |-> msg.data]
      [] msg.type = "Pong"   -> [ok |-> FALSE, variant |-> "Unexpected frame"]
      [] msg.type = "Ping"   -> [ok |-> TRUE, variant |-> "Ping"]
      [] msg.type = "Close"  -> [ok |-> FALSE, variant |-> "Socket closed"]
      [] msg.type = "Frame"  -> [ok |-> FALSE, variant |-> "Unexpected frame"]

\* A decoder whose Either tries the order-update schema first.
parse_message_order_first(sub, msg) ==
    CASE msg.type = "Text" ->
             IF sub.kind = "UserData"
             THEN IF from_str("UserOrderUpdate", msg)
                  THEN [ok |-> TRUE, variant |-> "UserOrderUpdate"]
                  ELSE IF from_str("AccountUpdate", msg)
                       THEN [ok |-> TRUE, variant |-> "UserAccountUpdate"]
                       ELSE [ok |-> FALSE, variant |-> "json error"]
             ELSE IF from_str(sub.kind, msg)
                  THEN [ok |-> TRUE, variant |-> sub.kind]
                  ELSE [ok |-> FALSE, variant |-> "json error"]
      [] msg.type = "Binary" ->
             [ok |-> TRUE, variant |-> "Binary", data |-> msg.data]
      [] msg.type = "Pong"   -> [ok |-> TRUE, variant |-> "Pong"]
      [] msg.type = "Ping"   -> [ok |-> TRUE, variant |-> "Ping"]
      [] msg.type = "Close"  -> [ok |-> FALSE, variant |-> "Socket closed"]
      [] msg.type = "Frame"  -> [ok |-> FALSE, variant |-> "Unexpected frame"]

parse_message(sub, msg) ==
    CASE msg.type = "Text" ->
             IF sub.kind = "UserData"
             THEN IF from_str("AccountUpdate", msg)
                  THEN [ok |-> TRUE, variant |-> "UserAccountUpdate"]
                  ELSE IF from_str("UserOrderUpdate", msg)
                       THEN [ok |-> TRUE, variant |-> "UserOrderUpdate"]
                       ELSE [ok |-> FALSE, variant |-> "json error"]
             ELSE IF from_str(sub.kind, msg)
                  THEN [ok |-> TRUE, variant |-> sub.kind]
                  ELSE [ok |-> FALSE, variant |-> "json error"]
      [] msg.type = "Binary" ->
             [ok |-> TRUE, variant |-> "Binary", data |-> msg.data]
      [] msg.type = "Pong"   -> [ok |-> TRUE, variant |-> "Pong"]
      [] msg.type = "Ping"   -> [ok |-> TRUE, variant |-> "Ping"]
      [] msg.type = "Close"  -> [ok |-> FALSE, variant |-> "Socket closed"]
      [] msg.type = "Frame"  -> [ok |-> FALSE, variant |-> "Unexpected frame"]

\* A decoding that lets a read error through as a passthrough item.
DecodeErrorAsOk(sub, item) ==
    IF item.type = "Error"
    THEN [ok |-> TRUE, variant |-> "Ping"]
    ELSE parse_message(sub, item)

\* item.map_err(..).and_then(|m| parse_message(sub, m))
Decode(sub, item) ==
    IF item.type = "Error"
    THEN [ok |-> FALSE, variant |-> "error"]
    ELSE parse_message(sub, item)

\* ------------------------------------------------------------------ Init
NoCall == [op |-> "none", d |-> NoSub, token |-> 0, conn |-> 0, prev |-> 0,
           out |-> "none"]

Init ==
    /\ subscriptions = EmptyMap
    /\ tokens = EmptyMap
    /\ streams = EmptyMap
    /\ free = <<>>
    /\ conns = <<>>
    /\ fed = 0
    /\ last = NoCall

\* ------------------------------------------------------------- subscribe
\* A registration that keeps the token a descriptor already has.
SubscriptionsAfterSubscribeKeep(d) ==
    IF d \in DOMAIN subscriptions
    THEN subscriptions
    ELSE MapInsert(subscriptions, d, NextToken)

\* self.subscriptions.insert(subscription.clone(), token)
SubscriptionsAfterSubscribe(d) == MapInsert(subscriptions, d, NextToken)

\* A registration that keeps the entry a token already has.
TokensAfterSubscribeKeep(d) ==
    IF NextToken \in DOMAIN tokens THEN tokens ELSE MapInsert(tokens, NextToken, d)

\* A subscribe that leaves the token -> descriptor map alone.
TokensAfterSubscribeSkip(d) == tokens

\* self.tokens.insert(token, subscription.clone())
TokensAfterSubscribe(d) == MapInsert(tokens, NextToken, d)

\* The handshake succeeded: insert the stream, register both directions.
SubscribeOk(d) ==
    /\ Len(conns) < MaxConns
    /\ conns' = Append(conns, [sub |-> d, inbox |-> <<>>, closed |-> FALSE,
                               taken |-> FALSE, out |-> <<>>])
    /\ streams' = StreamsInsert(Len(conns) + 1)
    /\ free' = FreeAfterInsert
    /\ subscriptions' = SubscriptionsAfterSubscribe(d)
    /\ tokens' = TokensAfterSubscribe(d)
    /\ last' = [NoCall EXCEPT !.op = "subscribe", !.d = d, !.token = NextToken,
                              !.conn = Len(conns) + 1, !.out = "Ok",
                              !.prev = IF d \in DOMAIN subscriptions
                                       THEN subscriptions[d] ELSE 0]
    /\ UNCHANGED fed

\* The handshake failed: connect_async(endpoint).await? returns the error
\* before insert is called.
SubscribeErr(d) ==
    /\ last' = [NoCall EXCEPT !.op = "subscribe", !.d = d, !.out = "Err",
                              !.prev = IF d \in DOMAIN subscriptions
                                       THEN subscriptions[d] ELSE 0]
    /\ UNCHANGED <<subscriptions, tokens, streams, free, conns, fed>>

\* A subscribe that registers the descriptor before the handshake is known
\* to have succeeded.
SubscribeEager(d, ok) ==
    IF ok
    THEN SubscribeOk(d)
    ELSE /\ subscriptions' = SubscriptionsAfterSubscribe(d)
         /\ tokens' = TokensAfterSubscribe(d)
         /\ last' = [NoCall EXCEPT !.op = "subscribe", !.d = d, !.out = "Err",
                                   !.prev = IF d \in DOMAIN subscriptions
                                            THEN subscriptions[d] ELSE 0]
         /\ UNCHANGED <<streams, free, conns, fed>>

\* subscribe(d); ok is the outcome of the handshake (connect_async).
Subscribe(d, ok) == IF ok THEN SubscribeOk(d) ELSE SubscribeErr(d)

\* ----------------------------------------------------------- unsubscribe
\* An unsubscribe that hands the connection back and leaves it a member of
\* the engine.
UnsubscribeKeepsMember(d) ==
    IF d \in DOMAIN subscriptions
    THEN LET token == subscriptions[d]
             c == StreamsTake(token)
         IN /\ conns' = IF c # 0 THEN [conns EXCEPT ![c].taken = TRUE] ELSE conns
            /\ last' = [NoCall EXCEPT !.op = "unsubscribe", !.d = d,
                                      !.token = token, !.prev = token, !.conn = c,
                                      !.out = IF c # 0 THEN "Some" ELSE "None"]
            /\ UNCHANGED <<subscriptions, tokens, streams, free, fed>>
    ELSE /\ last' = [NoCall EXCEPT !.op = "unsubscribe", !.d = d, !.out = "None"]
         /\ UNCHANGED <<subscriptions, tokens, streams, free, conns, fed>>

\* subscriptions.get(d).and_then(|token| StreamUnordered::take(streams, *token))
Unsubscribe(d) ==
    IF d \in DOMAIN subscriptions
    THEN LET token == subscriptions[d]
             c == StreamsTake(token)
         IN /\ streams' = StreamsAfterTake(token)
            /\ free' = FreeAfterTake(token)
            /\ conns' = IF c # 0 THEN [conns EXCEPT ![c].taken = TRUE] ELSE conns
            /\ last' = [NoCall EXCEPT !.op = "unsubscribe", !.d = d,
                                      !.token = token, !.prev = token, !.conn = c,
                                      !.out = IF c # 0 THEN "Some" ELSE "None"]
            /\ UNCHANGED <<subscriptions, tokens, fed>>
    ELSE /\ last' = [NoCall EXCEPT !.op = "unsubscribe", !.d = d, !.out = "None"]
         /\ UNCHANGED <<subscriptions, tokens, streams, free, conns, fed>>

\* ------------------------------------------------------------- poll_next
\* A poll_next that swallows a frame it fails to decode instead of
\* surfacing the error item.
PollItemLossy(t) ==
    /\ HasItem(t)
    /\ t \in DOMAIN tokens
    /\ LET c == streams[t].conn
           f == NextFrame(c)
           r == Decode(tokens[t], f.item)
       IN /\ conns' = [conns EXCEPT
                ![c].inbox = RestFrames(c, f),
                ![c].out = IF r.ok
                           THEN Append(@, [frame |-> f.id, sub |-> tokens[t],
                                           ok |-> r.ok, variant |-> r.variant])
                           ELSE @]
          /\ last' = [NoCall EXCEPT !.op = "poll", !.d = tokens[t], !.token = t,
                         !.conn = c, !.out = IF r.ok THEN "Item" ELSE "Pending"]
    /\ UNCHANGED <<subscriptions, tokens, streams, free, fed>>

\* A poll_next that drops the member whose frame failed to decode.
PollItemFatal(t) ==
    /\ HasItem(t)
    /\ t \in DOMAIN tokens
    /\ LET c == streams[t].conn
           f == NextFrame(c)
           r == Decode(tokens[t], f.item)
       IN /\ conns' = [conns EXCEPT
                ![c].inbox = RestFrames(c, f),
                ![c].out = Append(@, [frame |-> f.id, sub |-> tokens[t],
                                      ok |-> r.ok, variant |-> r.variant])]
          /\ streams' = IF r.ok THEN streams ELSE MapRemove(streams, t)
          /\ last' = [NoCall EXCEPT !.op = "poll", !.d = tokens[t],
                         !.token = t, !.conn = c, !.out = "Item"]
    /\ UNCHANGED <<subscriptions, tokens, free, fed>>

\* Poll::Ready(Some((StreamYield::Item(item), token))): resolve the
\* descriptor, decode, surface the item.
PollItem(t) ==
    /\ HasItem(t)
    /\ LET c == streams[t].conn
           f == NextFrame(c)
       IN IF t \in DOMAIN tokens
          THEN LET r == Decode(tokens[t], f.item)
               IN /\ conns' = [conns EXCEPT
                        ![c].inbox = RestFrames(c, f),
                        ![c].out = Append(@, [frame |-> f.id, sub |-> tokens[t],
                                              ok |-> r.ok, variant |-> r.variant])]
                  /\ last' = [NoCall EXCEPT !.op = "poll", !.d = tokens[t],
                                 !.token = t, !.conn = c, !.out = "Item"]
          ELSE \* tokens.get(&token).unwrap() panics
               /\ conns' = [conns EXCEPT ![c].inbox = RestFrames(c, f)]
               /\ last' = [NoCall EXCEPT !.op = "poll", !.token = t, !.conn = c,
                              !.out = "panic"]
    /\ UNCHANGED <<subscriptions, tokens, streams, free, fed>>

\* A poll_next that ends the sequence when one member's stream ends.
PollFinishedEnds(t) ==
    /\ HasEnded(t)
    /\ streams' = [streams EXCEPT ![t].done = TRUE]
    /\ last' = [NoCall EXCEPT !.op = "poll", !.token = t, !.conn = streams[t].conn,
                              !.out = "End"]
    /\ UNCHANGED <<subscriptions, tokens, free, conns, fed>>

\* Poll::Ready(Some((StreamYield::Finished(_), token))) => Poll::Pending
PollFinished(t) ==
    /\ HasEnded(t)
    /\ streams' = [streams EXCEPT ![t].done = TRUE]
    /\ last' = [NoCall EXCEPT !.op = "poll", !.token = t, !.conn = streams[t].conn,
                              !.out = "Finished"]
    /\ UNCHANGED <<subscriptions, tokens, free, conns, fed>>

\* A poll_next that suspends when the engine has no member.
PollNoneSuspends ==
    /\ DOMAIN streams = {}
    /\ last' = [NoCall EXCEPT !.op = "poll", !.out = "Pending"]
    /\ UNCHANGED <<subscriptions, tokens, streams, free, conns, fed>>

\* A poll_next that reports NoStreamSubscribed once and then ends the sequence.
PollNoneOnce ==
    /\ DOMAIN streams = {}
    /\ last' = [NoCall EXCEPT !.op = "poll",
                   !.out = IF last.op = "poll" /\ last.out \in {"NoStreamSubscribed", "End"}
                           THEN "End" ELSE "NoStreamSubscribed"]
    /\ UNCHANGED <<subscriptions, tokens, streams, free, conns, fed>>

\* Poll::Ready(None) => Some(Err(NoStreamSubscribed))
PollNone ==
    /\ DOMAIN streams = {}
    /\ last' = [NoCall EXCEPT !.op = "poll", !.out = "NoStreamSubscribed"]
    /\ UNCHANGED <<subscriptions, tokens, streams, free, conns, fed>>

\* Poll::Pending => Poll::Pending
PollPending ==
    /\ DOMAIN streams # {}
    /\ \A t \in DOMAIN streams : ~HasItem(t) /\ ~HasEnded(t)
    /\ last' = [NoCall EXCEPT !.op = "poll", !.out = "Pending"]
    /\ UNCHANGED <<subscriptions, tokens, streams, free, conns, fed>>

\* What poll_next hands the consumer for each outcome recorded in last.out.
PollReturn(out) ==
    CASE out = "Item"               -> "Ready(Some(item))"
      [] out = "NoStreamSubscribed" -> "Ready(Some(Err))"
      [] out = "Finished"           -> "Pending"
      [] out = "Pending"            -> "Pending"
      [] out = "End"                -> "Ready(None)"
      [] OTHER                      -> "panic"

PollNext ==
    \/ \E t \in Tokens : PollItem(t)
    \/ \E t \in Tokens : PollFinished(t)
    \/ PollNone
    \/ PollPending

\* ------------------------------------------------------------- the peers
\* The peer of a connection the engine holds sends one frame.
PeerSend(c, m) ==
    /\ fed < MaxFrames
    /\ c \in 1..Len(conns)
    /\ IsMember(c)
    /\ ~conns[c].closed
    /\ fed' = fed + 1
    /\ conns' = [conns EXCEPT ![c].inbox = Append(@, [id |-> fed + 1, item |-> m])]
    /\ last' = NoCall
    /\ UNCHANGED <<subscriptions, tokens, streams, free>>

\* The peer of a connection the engine holds closes it: the stream ends after
\* the frames already sent.
PeerClose(c) ==
    /\ c \in 1..Len(conns)
    /\ IsMember(c)
    /\ ~conns[c].closed
    /\ conns' = [conns EXCEPT ![c].closed = TRUE]
    /\ last' = NoCall
    /\ UNCHANGED <<subscriptions, tokens, streams, free, fed>>

Next ==
    \/ \E d \in Subscription, ok \in BOOLEAN : Subscribe(d, ok)
    \/ \E d \in Subscription : Unsubscribe(d)
    \/ PollNext
    \/ \E c \in Conns, m \in Message : PeerSend(c, m)
    \/ \E c \in Conns : PeerClose(c)

Spec == Init /\ [][Next]_vars

\* ------------------------------------------------ transport read errors
\* What a connection's stream can yield in this part: a text frame of the
\* Trade schema, or Err(e) of the transport.
ReadItem == { [type |-> "Text", schemas |-> {"Trade"}],
              [type |-> "Error", schemas |-> {}] }

TransportNext ==
    \/ \E d \in Subscription, ok \in BOOLEAN : Subscribe(d, ok)
    \/ \E d \in Subscription : Unsubscribe(d)
    \/ PollNext
    \/ \E c \in Conns, m \in ReadItem : PeerSend(c, m)
    \/ \E c \in Conns : PeerClose(c)

TransportSpec == Init /\ [][TransportNext]_vars

\* ------------------------------------------ after NoStreamSubscribed
\* The facade right after a poll reported NoStreamSubscribed: nothing was
\* subscribed yet (d = NoSub), or d was subscribed and unsubscribed.
ResumeInit ==
    \E d \in Subscription \cup {NoSub} :
        /\ subscriptions = IF d = NoSub THEN EmptyMap ELSE MapInsert(EmptyMap, d, 1)
        /\ tokens = IF d = NoSub THEN EmptyMap ELSE MapInsert(EmptyMap, 1, d)
        /\ streams = EmptyMap
        /\ free = IF d = NoSub THEN <<>> ELSE <<1>>
        /\ conns = IF d = NoSub
                   THEN <<>>
                   ELSE <<[sub |-> d, inbox |-> <<>>, closed |-> FALSE,
                           taken |-> TRUE, out |-> <<>>]>>
        /\ fed = 0
        /\ last = [NoCall EXCEPT !.op = "poll", !.out = "NoStreamSubscribed"]

ResumeSpec == ResumeInit /\ [][Next]_vars

\* ------------------------------------------------- endpoint derivation
\* const WS_URL
WS_URL == "wss://stream.binance.com:9443/ws"

Symbols == {"btcusdt", "BTCUSDT", "BtcUsdt", "ethbtc"}

Intervals == {"1m", "5m", "1h", "1d", "1M"}

Depths == {5, 10, 20}

Keys == {"pqia91ma19a5s61cv6a81va65sdf19v8a65a1a5s61cv6a81va65sdf19v8a65a1",
         "AbC123xyz"}

\* A descriptor of the ten variants of Subscription; a field a variant does
\* not carry is "" or 0.
Descriptor(kind, symbol, interval, depth, key) ==
    [kind |-> kind, symbol |-> symbol, interval |-> interval, depth |-> depth,
     key |-> key]

Descriptors ==
    {Descriptor(k, s, "", 0, "") :
        k \in {"AggregateTrade", "Depth", "MiniTicker", "Ticker", "Trade"},
        s \in Symbols}
    \cup {Descriptor("Candlestick", s, i, 0, "") : s \in Symbols, i \in Intervals}
    \cup {Descriptor("OrderBook", s, 0, n, "") : s \in Symbols, n \in Depths}
    \cup {Descriptor(k, "", "", 0, "") : k \in {"MiniTickerAll", "TickerAll"}}
    \cup {Descriptor("UserData", "", "", 0, key) : key \in Keys}

\* Upper-case form of the sample symbols.
ToUpper(symbol) ==
    CASE symbol = "btcusdt" -> "BTCUSDT"
      [] symbol = "BtcUsdt" -> "BTCUSDT"
      [] symbol = "ethbtc"  -> "ETHBTC"
      [] OTHER              -> symbol

\* A topic string built from the upper-cased symbol.
TopicStringUpper(subscription) ==
    LET symbol == ToUpper(subscription.symbol) IN
    CASE subscription.kind = "AggregateTrade" -> symbol \o "@aggTrade"
      [] subscription.kind = "Candlestick" ->
             symbol \o "@kline_" \o subscription.interval
      [] subscription.kind = "Depth" -> symbol \o "@depth"
      [] subscription.kind = "MiniTicker" -> symbol \o "@miniTicker"
      [] subscription.kind = "MiniTickerAll" -> "!miniTicker@arr"
      [] subscription.kind = "OrderBook" ->
             symbol \o "@depth" \o ToString(subscription.depth)
      [] subscription.kind = "Ticker" -> symbol \o "@ticker"
      [] subscription.kind = "TickerAll" -> "!ticker@arr"
      [] subscription.kind = "Trade" -> symbol \o "@trade"
      [] subscription.kind = "UserData" -> subscription.key

\* let sub = match subscription { .. }
TopicString(subscription) ==
    CASE subscription.kind = "AggregateTrade" ->
             subscription.symbol \o "@aggTrade"
      [] subscription.kind = "Candlestick" ->
             subscription.symbol \o "@kline_" \o subscription.interval
      [] subscription.kind = "Depth" -> subscription.symbol \o "@depth"
      [] subscription.kind = "MiniTicker" -> subscription.symbol \o "@miniTicker"
      [] subscription.kind = "MiniTickerAll" -> "!miniTicker@arr"
      [] subscription.kind = "OrderBook" ->
             subscription.symbol \o "@depth" \o ToString(subscription.depth)
      [] subscription.kind = "Ticker" -> subscription.symbol \o "@ticker"
      [] subscription.kind = "TickerAll" -> "!ticker@arr"
      [] subscription.kind = "Trade" -> subscription.symbol \o "@trade"
      [] subscription.kind = "UserData" -> subscription.key

\* let endpoint = format!("{}/{}", WS_URL, sub)
Endpoint(subscription) == WS_URL \o "/" \o TopicString(subscription)

\* subscribe is entered with a descriptor; nothing is registered yet.
TopicInit ==
    /\ subscriptions = EmptyMap
    /\ tokens = EmptyMap
    /\ streams = EmptyMap
    /\ free = <<>>
    /\ conns = <<>>
    /\ fed = 0
    /\ \E d \in Descriptors :
          last = [NoCall EXCEPT !.op = "endpoint", !.d = d]

\* The address subscribe hands to connect_async.
DeriveEndpoint ==
    /\ last.op = "endpoint"
    /\ last.out = "none"
    /\ last' = [last EXCEPT !.out = Endpoint(last.d)]
    /\ UNCHANGED <<subscriptions, tokens, streams, free, conns, fed>>

TopicNext == DeriveEndpoint

TopicSpec == TopicInit /\ [][TopicNext]_vars

\* ------------------------------------------------------- frame decoding
\* The payload types from_str is asked for: one per descriptor kind, two
\* for UserData.
Schemas ==
    {"AggregateTrade", "Candlestick", "Depth", "MiniTicker", "MiniTickerAll",
     "OrderBook", "Ticker", "TickerAll", "Trade", "AccountUpdate",
     "UserOrderUpdate"}

\* Contents of a Binary frame.
Bytes == {"", "0a0b"}

\* A tungstenite Message: its variant, the schemas a Text deserializes as,
\* the bytes of a Binary.
WireFrame(type, schemas, data) ==
    [type |-> type, schemas |-> schemas, data |-> data]

\* Text frames matching one schema, none, or both of UserData's; every
\* other variant of Message.
WireFrames ==
    {WireFrame("Text", {x}, "") : x \in Schemas}
    \cup {WireFrame("Text", {}, ""),
          WireFrame("Text", {"AccountUpdate", "UserOrderUpdate"}, "")}
    \cup {WireFrame("Binary", {}, b) : b \in Bytes}
    \cup {WireFrame(t, {}, "") : t \in {"Pong", "Ping", "Close", "Frame"}}

\* parse_message is entered with a descriptor and a frame.
DecodeInit ==
    /\ subscriptions = EmptyMap
    /\ tokens = EmptyMap
    /\ streams = EmptyMap
    /\ free = <<>>
    /\ conns = <<>>
    /\ fed = 0
    /\ \E sub \in Descriptors, msg \in WireFrames :
          last = [NoCall EXCEPT !.op = "parse", !.d = [sub |-> sub, msg |-> msg]]

\* parse_message returns.
ParseMessage ==
    /\ last.op = "parse"
    /\ last' = [last EXCEPT !.op = "parsed",
                            !.out = parse_message(last.d.sub, last.d.msg)]
    /\ UNCHANGED <<subscriptions, tokens, streams, free, conns, fed>>

DecodeNext == ParseMessage

DecodeSpec == DecodeInit /\ [][DecodeNext]_vars

\* ---------------------------------------------------- request signature
\* Transport.credential: Option<(api key, api secret)>.
NoCredential == <<>>

Credentials == {NoCredential, <<"key-A", "secret-A">>, <<"key-B", "secret-B">>}

\* Url::query(): None for a URL with no '?', else the text after it.
NoQuery == [some |-> FALSE, text |-> ""]

SomeQuery(text) == [some |-> TRUE, text |-> text]

Queries ==
    {NoQuery} \cup {SomeQuery(q) : q \in {"", "a=1", "a=1&b=2", "a=1&"}}

Bodies == {"", "a=1", "b=2", "&b=2", "a=1&b=2"}

\* url.query().unwrap_or("")
QueryOrEmpty(query) == IF query.some THEN query.text ELSE ""

\* hex(HMAC_SHA256(secret, message)): a function of the secret and the whole
\* message, kept symbolic.
HmacSha256Hex(secret, message) == [hmac_sha256 |-> <<secret, message>>]

\* check_key
check_key(credential) ==
    IF credential = NoCredential
    THEN [ok |-> FALSE, error |-> "NoApiKeySet"]
    ELSE [ok |-> TRUE, key |-> credential[1], secret |-> credential[2]]

\* A signature over the query string alone.
signature_query_only(credential, query, body) ==
    LET ck == check_key(credential) IN
    IF ~ck.ok
    THEN ck
    ELSE [ok |-> TRUE, key |-> ck.key,
          signature |-> HmacSha256Hex(ck.secret, QueryOrEmpty(query))]

\* Transport::signature(url, body); query is url.query().
signature(credential, query, body) ==
    LET ck == check_key(credential) IN
    IF ~ck.ok
    THEN ck
    ELSE LET sign_message == QueryOrEmpty(query) \o body
         IN [ok |-> TRUE, key |-> ck.key,
             signature |-> HmacSha256Hex(ck.secret, sign_message)]

\* Two requests are about to be signed by one transport.
SignInit ==
    /\ subscriptions = EmptyMap
    /\ tokens = EmptyMap
    /\ streams = EmptyMap
    /\ free = <<>>
    /\ conns = <<>>
    /\ fed = 0
    /\ \E credential \in Credentials, q1 \in Queries, b1 \in Bodies,
          q2 \in Queries, b2 \in Bodies :
          last = [NoCall EXCEPT !.op = "sign",
                                !.d = [credential |-> credential,
                                       query1 |-> q1, body1 |-> b1,
                                       query2 |-> q2, body2 |-> b2]]

\* Both calls of signature return.
Sign ==
    /\ last.op = "sign"
    /\ last' = [last EXCEPT
                  !.op = "signed",
                  !.out = <<signature(last.d.credential, last.d.query1, last.d.body1),
                            signature(last.d.credential, last.d.query2, last.d.body2)>>]
    /\ UNCHANGED <<subscriptions, tokens, streams, free, conns, fed>>

SignNext == Sign

SignSpec == SignInit /\ [][SignNext]_vars

\* ================================================================ claims
ConnIds == 1..Len(conns)

\* The connections that are members under a token the engine may still poll.
ActiveTokens == {t \in DOMAIN streams : ~streams[t].done}

\* C1: in every reachable state the descriptor->token map and the
\* token->descriptor map are mutual inverses: subscriptions[d] = t if and only
\* if tokens[t] = d.
C1_RegistryInverse ==
    /\ \A d \in DOMAIN subscriptions :
          subscriptions[d] \in DOMAIN tokens /\ tokens[subscriptions[d]] = d
    /\ \A t \in DOMAIN tokens :
          tokens[t] \in DOMAIN subscriptions /\ subscriptions[tokens[t]] = t

\* C2: after unsubscribe(d) on a subscribed descriptor d, both mapping
\* directions for d are gone, the connection is no longer a member of the
\* engine, and that connection is the value returned.
C2_UnsubscribeRemovesBoth ==
    (last.op = "unsubscribe" /\ last.out = "Some") =>
        /\ last.d \notin DOMAIN subscriptions
        /\ last.prev \notin DOMAIN tokens
        /\ ~IsMember(last.conn)
        /\ conns[last.conn].sub = last.d

\* C3: subscribe(d) on a descriptor whose prior connection is still a member
\* replaces the prior entry: the prior token is in neither registry map, the
\* prior connection is no longer polled, and one connection is live for d.
C3_ResubscribeReplaces ==
    (last.op = "subscribe" /\ last.out = "Ok" /\ last.prev # 0
        /\ last.prev # last.token) =>
        /\ last.prev \notin DOMAIN tokens
        /\ \A d \in DOMAIN subscriptions : subscriptions[d] # last.prev
        /\ last.prev \notin DOMAIN streams
        /\ Cardinality({t \in DOMAIN streams :
                           conns[streams[t].conn].sub = last.d}) <= 1

\* C4: every item poll_next surfaces was decoded with the descriptor passed to
\* the subscribe call that admitted the connection the frame came from.
C4_DecodedWithAdmittingDescriptor ==
    /\ \A c \in ConnIds : \A i \in 1..Len(conns[c].out) :
          conns[c].out[i].sub = conns[c].sub
    /\ (last.op = "poll" /\ last.out = "Item") => last.d = conns[last.conn].sub

\* C4 witness: an item of connection 2 surfaced under token 1, which
\* connection 1 held before for another descriptor.
C4_Witness ==
    /\ last.op = "poll" /\ last.out = "Item"
    /\ last.conn = 2 /\ last.token = 1
    /\ conns[1].taken
    /\ conns[1].sub # conns[2].sub

\* C5: every token recorded in the registry identifies a connection that is
\* an active member of the engine.
C5_RegistryTokensLive ==
    /\ \A t \in DOMAIN tokens : t \in ActiveTokens
    /\ \A d \in DOMAIN subscriptions : subscriptions[d] \in ActiveTokens

\* C6: when poll_next observes the finished-signal of a token, both mapping
\* directions of that token are evicted.
C6_FinishedEvicts ==
    (last.op = "poll" /\ last.out = "Finished") =>
        /\ last.token \notin DOMAIN tokens
        /\ \A d \in DOMAIN subscriptions : subscriptions[d] # last.token

\* C7: a subscribe whose handshake fails returns an error and leaves both
\* registry maps and the engine's member set as they were.
C7_FailedSubscribeNoChange ==
    [][(last'.op = "subscribe" /\ last'.out = "Err") =>
          UNCHANGED <<subscriptions, tokens, streams, free, conns>>]_vars

\* C7 witness: a handshake failed for a descriptor that is subscribed, with
\* its connection in the engine.
C7_Witness ==
    /\ last.op = "subscribe" /\ last.out = "Err"
    /\ last.prev \in DOMAIN streams
    /\ last.d \in DOMAIN subscriptions

\* C8: once unsubscribe(d) has returned d's connection and d was subscribed
\* again, no frame of the old connection is surfaced, also when the new
\* connection holds the old token.
C8_StaleTokenIsolation ==
    [][\A c \in ConnIds :
          (/\ conns[c].taken
           /\ \E c2 \in ConnIds : /\ c2 # c
                                   /\ conns[c2].sub = conns[c].sub
                                   /\ IsMember(c2))
          => conns'[c].out = conns[c].out]_vars

\* C8 witness: connection 1 was returned by unsubscribe(d) with a frame still
\* unread, connection 2 was admitted for d under the same token, and an item
\* of connection 2 has just been surfaced.
C8_Witness ==
    /\ Len(conns) = 2
    /\ conns[1].taken /\ conns[1].inbox # <<>>
    /\ conns[2].sub = conns[1].sub
    /\ last.op = "poll" /\ last.out = "Item" /\ last.conn = 2
    /\ last.token \in DOMAIN streams /\ streams[last.token].conn = 2
    /\ tokens[last.token] = conns[1].sub
    /\ conns[1].out = <<>>

\* Where frame id is: the places it is waiting in, the places it surfaced at.
Pending(id) ==
    {<<c, i>> \in ConnIds \X (1..MaxFrames + 1) :
        i <= Len(conns[c].inbox) /\ conns[c].inbox[i].id = id}

Surfaced(id) ==
    {<<c, i>> \in ConnIds \X (1..MaxFrames + 1) :
        i <= Len(conns[c].out) /\ conns[c].out[i].frame = id}

\* C9: every frame fed to an admitted connection surfaces exactly once: it
\* is waiting in its connection or has surfaced once, never both, never
\* twice, never neither; so when no member has a frame waiting all of them
\* have surfaced.
C9_EveryFrameExactlyOnce ==
    /\ \A id \in 1..fed :
          Cardinality(Pending(id)) + Cardinality(Surfaced(id)) = 1
    /\ \A t \in DOMAIN streams :
          conns[streams[t].conn].inbox # <<>> => HasItem(t)

\* C9 witness: two connections are members, each was fed exactly one frame,
\* and both frames have surfaced.
C9_Witness ==
    /\ Len(conns) = 2 /\ fed = 2
    /\ \A c \in ConnIds : /\ IsMember(c)
                           /\ Len(conns[c].out) = 1
                           /\ conns[c].inbox = <<>>

\* The frames of connection c in the order surfaced, then the ones waiting.
FrameOrder(c) ==
    [i \in 1..(Len(conns[c].out) + Len(conns[c].inbox)) |->
        IF i <= Len(conns[c].out)
        THEN conns[c].out[i].frame
        ELSE conns[c].inbox[i - Len(conns[c].out)].id]

\* C10: the items of one connection surface in the order the connection
\* delivered its frames (frame ids grow in the order sent).
C10_FifoWithinToken ==
    \A c \in ConnIds :
        \A i, j \in 1..Len(FrameOrder(c)) :
            i < j => FrameOrder(c)[i] < FrameOrder(c)[j]

\* C10 witness: two frames of one connection have surfaced, and a frame of
\* another connection, sent between them, has surfaced too.
C10_Witness ==
    \E c, c2 \in ConnIds :
        /\ c # c2
        /\ Len(conns[c].out) = 2
        /\ Len(conns[c2].out) = 1
        /\ conns[c].out[1].frame < conns[c2].out[1].frame
        /\ conns[c2].out[1].frame < conns[c].out[2].frame

\* The frame connection c hands over in this step, if the step reads one.
Reads(c) ==
    /\ conns[c].inbox # <<>>
    /\ conns'[c].inbox = Tail(conns[c].inbox)

Malformed(c, f) ==
    f.item.type = "Text" /\ conns[c].sub.kind \notin f.item.schemas

WellFormed(c, f) ==
    f.item.type = "Text" /\ conns[c].sub.kind \in f.item.schemas

C12_CloseFrameScoped ==
    [][\A c \in ConnIds :
          (Reads(c) /\ Head(conns[c].inbox).item.type = "Close") =>
              /\ conns'[c].out =
                    Append(conns[c].out,
                           [frame |-> Head(conns[c].inbox).id, sub |-> conns[c].sub,
                            ok |-> FALSE, variant |-> "Socket closed"])
              /\ streams' = streams
              /\ \A c2 \in ConnIds : c2 # c => conns'[c2] = conns[c2]]_vars

\* C12 witness: connection a surfaced the error item of its Close frame and
\* connection b, still a member, has just surfaced a frame sent after it.
C12_Witness ==
    \E a, b \in ConnIds :
        /\ a # b
        /\ conns[a].out # <<>>
        /\ conns[a].out[1].variant = "Socket closed"
        /\ IsMember(b)
        /\ last.op = "poll" /\ last.out = "Item" /\ last.conn = b
        /\ conns[b].out # <<>>
        /\ conns[b].out[Len(conns[b].out)].ok
        /\ conns[b].out[Len(conns[b].out)].frame > conns[a].out[1].frame

\* C13: when poll_next observes a member's end of stream it hands the
\* consumer a sequence item for it (the event does not vanish).
C13_EndOfStreamSurfaced ==
    (last.op = "poll" /\ last.out = "Finished") =>
        PollReturn(last.out) = "Ready(Some(item))"

\* C14: when the engine has no member (nothing was subscribed, or every
\* connection was removed), a poll completes at once with NoStreamSubscribed
\* and cannot suspend.
C14_EmptySetCompletes ==
    /\ DOMAIN streams = {} => (ENABLED PollNone /\ ~ENABLED PollPending)
    /\ (last.op = "poll" /\ DOMAIN streams = {}) =>
          /\ last.out = "NoStreamSubscribed"
          /\ PollReturn(last.out) = "Ready(Some(Err))"

\* C14 witness: every connection opened was removed by unsubscribe and the
\* poll that followed returned NoStreamSubscribed.
C14_Witness ==
    /\ last.op = "poll" /\ last.out = "NoStreamSubscribed"
    /\ conns # <<>>
    /\ \A c \in ConnIds : conns[c].taken

C16_NeverEndsWhileSubscribed ==
    (last.op = "poll" /\ DOMAIN streams # {}) =>
        PollReturn(last.out) # "Ready(None)"

\* C16 witness: a malformed-payload error and a closed-frame error have been
\* surfaced, a member is still there, and the poll after them did not end
\* the sequence.
C16_Witness ==
    /\ \E c \in ConnIds : \E i \in 1..Len(conns[c].out) :
          conns[c].out[i].variant = "json error"
    /\ \E c \in ConnIds : \E i \in 1..Len(conns[c].out) :
          conns[c].out[i].variant = "Socket closed"
    /\ DOMAIN streams # {}
    /\ last.op = "poll" /\ last.out \in {"Pending", "Finished"}

\* C18: every token the engine can yield has an entry in the token ->
\* descriptor map, so the lookup in poll_next finds it and no poll panics.
C18_YieldedTokenRegistered ==
    /\ DOMAIN streams \subseteq DOMAIN tokens
    /\ last.out # "panic"

\* C18 witness: an item was surfaced from the first connection after its
\* descriptor was subscribed again, so the lookup went through a token the
\* descriptor -> token map no longer points to.
C18_Witness ==
    /\ last.op = "poll" /\ last.out = "Item"
    /\ last.conn = 1 /\ last.token = 1
    /\ Len(conns) = 2
    /\ conns[2].sub = conns[1].sub
    /\ subscriptions[conns[1].sub] = 2

\* C19: the tokens of the engine's members are pairwise distinct: the token
\* the next insert returns belongs to no member, every connection not yet
\* removed is a member under exactly one token, and a token value handed
\* out again belonged to a connection that was removed.
C19_TokenUniqueAmongMembers ==
    /\ NextToken \notin DOMAIN streams
    /\ \A c \in ConnIds :
          ~conns[c].taken =>
              Cardinality({t \in DOMAIN streams : streams[t].conn = c}) = 1
    /\ Cardinality(DOMAIN streams) =
          Cardinality({c \in ConnIds : ~conns[c].taken})

\* C19 witness: the second connection was admitted under the token of the
\* first, which had been removed by unsubscribe.
C19_Witness ==
    /\ last.op = "subscribe" /\ last.out = "Ok"
    /\ last.conn = 2 /\ last.token = 1
    /\ conns[1].taken

\* The topic string the table of the specification gives a descriptor.
ExpectedTopic(d) ==
    CASE d.kind = "Trade"          -> d.symbol \o "@trade"
      [] d.kind = "AggregateTrade" -> d.symbol \o "@aggTrade"
      [] d.kind = "Candlestick"    -> d.symbol \o "@kline_" \o d.interval
      [] d.kind = "Depth"          -> d.symbol \o "@depth"
      [] d.kind = "OrderBook"      -> d.symbol \o "@depth" \o ToString(d.depth)
      [] d.kind = "MiniTicker"     -> d.symbol \o "@miniTicker"
      [] d.kind = "MiniTickerAll"  -> "!miniTicker@arr"
      [] d.kind = "Ticker"         -> d.symbol \o "@ticker"
      [] d.kind = "TickerAll"      -> "!ticker@arr"
      [] d.kind = "UserData"       -> d.key

\* C20: the address is WS_URL, "/", and the topic string of the table, with
\* the symbol exactly as the caller wrote it; the three worked examples of
\* the specification come out literally.
C20_EndpointFromDescriptor ==
    (last.op = "endpoint" /\ last.out # "none") =>
        /\ last.out = WS_URL \o "/" \o ExpectedTopic(last.d)
        /\ last.d = Descriptor("Candlestick", "btcusdt", "1m", 0, "") =>
              last.out = "wss://stream.binance.com:9443/ws/btcusdt@kline_1m"
        /\ last.d = Descriptor("OrderBook", "btcusdt", 0, 10, "") =>
              last.out = "wss://stream.binance.com:9443/ws/btcusdt@depth10"
        /\ last.d = Descriptor("MiniTickerAll", "", "", 0, "") =>
              last.out = "wss://stream.binance.com:9443/ws/!miniTicker@arr"

\* C20 witness: the address of an order-book subscription whose symbol is
\* written in mixed case has been derived, case kept.
C20_Witness ==
    /\ last.op = "endpoint"
    /\ last.d = Descriptor("OrderBook", "BtcUsdt", 0, 10, "")
    /\ last.out = "wss://stream.binance.com:9443/ws/BtcUsdt@depth10"

\* C21: for every descriptor, a Binary, Ping or Pong frame decodes to the
\* passthrough item of the same name, Binary with the same bytes, never to
\* an error.
C21_ControlFramesPassThrough ==
    (last.op = "parsed" /\ last.d.msg.type \in {"Binary", "Ping", "Pong"}) =>
        /\ last.out.ok
        /\ last.out.variant = last.d.msg.type
        /\ last.d.msg.type = "Binary" => last.out.data = last.d.msg.data

\* C21 witness: a Binary frame with bytes in it was decoded under a
\* UserData descriptor.
C21_Witness ==
    /\ last.op = "parsed"
    /\ last.d.sub.kind = "UserData"
    /\ last.d.msg.type = "Binary" /\ last.d.msg.data = "0a0b"
    /\ last.out = [ok |-> TRUE, variant |-> "Binary", data |-> "0a0b"]

\* C22: a Text frame is parsed against the schema of the descriptor's kind
\* only, and a decoded item carries the variant of that kind; under
\* UserData the account-update schema is tried first, then the order-update
\* schema, and the decode fails if neither matches.
C22_TextParsedByDescriptorKind ==
    (last.op = "parsed" /\ last.d.msg.type = "Text") =>
        LET kind == last.d.sub.kind
            schemas == last.d.msg.schemas
        IN IF kind = "UserData"
           THEN /\ "AccountUpdate" \in schemas =>
                      last.out = [ok |-> TRUE, variant |-> "UserAccountUpdate"]
                /\ ("AccountUpdate" \notin schemas /\ "UserOrderUpdate" \in schemas) =>
                      last.out = [ok |-> TRUE, variant |-> "UserOrderUpdate"]
                /\ schemas \cap {"AccountUpdate", "UserOrderUpdate"} = {} =>
                      ~last.out.ok
           ELSE /\ last.out.ok <=> kind \in schemas
                /\ last.out.ok => last.out.variant = kind

\* C22 witness: under UserData a text that matches both schemas was decoded
\* as an account update.
C22_Witness ==
    /\ last.op = "parsed"
    /\ last.d.sub.kind = "UserData"
    /\ last.d.msg.type = "Text"
    /\ last.d.msg.schemas = {"AccountUpdate", "UserOrderUpdate"}
    /\ last.out.variant = "UserAccountUpdate"

\* C23: with a credential set, signature returns the api key and the
\* HMAC, under the secret, of the query string followed by the body; two
\* requests whose query + body concatenations are equal sign identically.
C23_SignatureOverQueryAndBody ==
    (last.op = "signed" /\ last.d.credential # NoCredential) =>
        LET m1 == QueryOrEmpty(last.d.query1) \o last.d.body1
            m2 == QueryOrEmpty(last.d.query2) \o last.d.body2
        IN /\ last.out[1] = [ok |-> TRUE, key |-> last.d.credential[1],
                             signature |->
                                 HmacSha256Hex(last.d.credential[2], m1)]
           /\ last.out[2].ok /\ last.out[2].key = last.d.credential[1]
           /\ m1 = m2 => last.out[1] = last.out[2]

\* C23 witness: the same parameters, once entirely in the query and once
\* entirely in the body, were signed to the same pair.
C23_Witness ==
    /\ last.op = "signed"
    /\ last.d.credential = <<"key-A", "secret-A">>
    /\ last.d.query1 = SomeQuery("a=1&b=2") /\ last.d.body1 = ""
    /\ last.d.query2 = NoQuery /\ last.d.body2 = "a=1&b=2"
    /\ last.out[1] = last.out[2]
    /\ last.out[1].key = "key-A"

\* C24: after subscribe(d) returned Ok the new connection is a member of
\* the engine under the token returned by insert, both maps point at each
\* other for d and that token, and any member with an unread frame can have
\* it surfaced by the next poll.
C24_SubscribeAdmits ==
    /\ (last.op = "subscribe" /\ last.out = "Ok") =>
          /\ last.token \in DOMAIN streams
          /\ streams[last.token] = [conn |-> last.conn, done |-> FALSE]
          /\ conns[last.conn].sub = last.d
          /\ last.d \in DOMAIN subscriptions
          /\ subscriptions[last.d] = last.token
          /\ last.token \in DOMAIN tokens
          /\ tokens[last.token] = last.d
    /\ \A t \in DOMAIN streams :
          HasItem(t) => ENABLED (PollItem(t) /\ last'.out = "Item")

\* C24 witness: subscribe(d) returned Ok for a descriptor whose earlier
\* connection is still a member under another token.
C24_Witness ==
    /\ last.op = "subscribe" /\ last.out = "Ok"
    /\ last.prev # 0 /\ last.prev # last.token
    /\ last.prev \in DOMAIN streams

\* C25: once unsubscribe has returned a connection, no later step surfaces
\* an item of that connection.
C25_RemovedConnectionSilent ==
    [][\A c \in ConnIds :
          conns[c].taken => /\ conns'[c].taken
                            /\ conns'[c].out = conns[c].out]_vars

\* C25 witness: the first connection was returned by unsubscribe with a
\* frame still unread, and afterwards a poll surfaced an item of the second
\* connection, admitted for another descriptor.
C25_Witness ==
    /\ Len(conns) = 2
    /\ conns[1].taken /\ conns[1].inbox # <<>>
    /\ conns[2].sub # conns[1].sub
    /\ last.op = "poll" /\ last.out = "Item" /\ last.conn = 2

\* C26: the connection unsubscribe(d) extracts was admitted for d.
C26_UnsubscribeOwnConnection ==
    (last.op = "unsubscribe" /\ last.out = "Some") =>
        conns[last.conn].sub = last.d

\* No connection admitted for d is still held by the engine.
NotSubscribed(d) == \A c \in ConnIds : conns[c].sub = d => conns[c].taken

\* C27: unsubscribe(d) on a descriptor that is not subscribed (never, or
\* already unsubscribed) returns None and leaves both registry maps and the
\* engine's members as they were.
C27_UnsubscribeAbsentIsNoop ==
    [][\A d \in Subscription :
          (NotSubscribed(d) /\ last'.op = "unsubscribe" /\ last'.d = d) =>
              /\ last'.out = "None"
              /\ UNCHANGED <<subscriptions, tokens, streams>>]_vars

\* C28: a poll made when every connection left in the engine has already
\* been seen to reach end-of-stream returns NoStreamSubscribed.
C28_AllEndedReportsNoStream ==
    (/\ last.op = "poll"
     /\ last.out # "Finished"
     /\ DOMAIN streams # {}
     /\ \A t \in DOMAIN streams : streams[t].done) =>
        last.out = "NoStreamSubscribed"

\* C29: poll_next returns Pending only when no member of the engine has a
\* frame ready to be surfaced.
C29_PendingOnlyWhenNoneReady ==
    (last.op = "poll" /\ PollReturn(last.out) = "Pending") =>
        \A t \in DOMAIN streams : ~HasItem(t)

\* C30: a poll that surfaces an item changes neither registry map nor the
\* engine's members, and the maps and the member set change only in
\* subscribe and unsubscribe steps.
C30_ItemLeavesRegistryAndMembers ==
    [][/\ (last'.op = "poll" /\ last'.out = "Item") =>
             UNCHANGED <<subscriptions, tokens, streams, free>>
       /\ (\/ subscriptions' # subscriptions
           \/ tokens' # tokens
           \/ DOMAIN streams' # DOMAIN streams) =>
             last'.op \in {"subscribe", "unsubscribe"}]_vars

\* C30 witness: a poll has just surfaced a decode error of a connection
\* that is still a member.
C30_Witness ==
    /\ last.op = "poll" /\ last.out = "Item"
    /\ IsMember(last.conn)
    /\ LET o == conns[last.conn].out IN o # <<>> /\ ~o[Len(o)].ok

\* C31: a transport read error yielded by one connection surfaces as one
\* error item of that connection for the poll that read it; both registry
\* maps, the member set and every other connection stay as they were.
C31_TransportErrorScoped ==
    [][\A c \in ConnIds :
          (Reads(c) /\ Head(conns[c].inbox).item.type = "Error") =>
              /\ conns'[c].out =
                    Append(conns[c].out,
                           [frame |-> Head(conns[c].inbox).id, sub |-> conns[c].sub,
                            ok |-> FALSE, variant |-> "error"])
              /\ last'.op = "poll" /\ last'.out = "Item" /\ last'.conn = c
              /\ UNCHANGED <<subscriptions, tokens, streams>>
              /\ \A c2 \in ConnIds : c2 # c => conns'[c2] = conns[c2]]_vars

\* C31 witness: connection a surfaced the error item of a read error and
\* connection b, still a member and registered, has just surfaced a frame
\* sent after it.
C31_Witness ==
    \E a, b \in ConnIds :
        /\ a # b
        /\ conns[a].out # <<>>
        /\ conns[a].out[1].variant = "error"
        /\ IsMember(b)
        /\ conns[b].sub \in DOMAIN subscriptions
        /\ last.op = "poll" /\ last.out = "Item" /\ last.conn = b
        /\ conns[b].out # <<>>
        /\ conns[b].out[Len(conns[b].out)].ok
        /\ conns[b].out[Len(conns[b].out)].frame > conns[a].out[1].frame

\* C32: after NoStreamSubscribed was reported no poll reports end of
\* sequence, and every connection admitted afterwards that has an unread
\* frame can have it surfaced by the next poll.
C32_UsableAfterNoStream ==
    /\ PollReturn(last.out) # "Ready(None)"
    /\ \A t \in DOMAIN streams :
          HasItem(t) =>
              ENABLED (PollNext /\ last'.out = "Item" /\ last'.token = t)

\* C32 witness: after NoStreamSubscribed a subscribe succeeded, and a poll
\* has just surfaced a decoded frame of its connection.
C32_Witness ==
    /\ last.op = "poll" /\ last.out = "Item"
    /\ IsMember(last.conn)
    /\ LET o == conns[last.conn].out IN o # <<>> /\ o[Len(o)].ok

====
